---- MODULE Spec2Model ----
(***************************************************************************)
(* Model of src/visage.py: one execution of main() under the Streamlit     *)
(* script runner.  The state is the position of the single thread of       *)
(* control (pc), the locals of main() and initialize_camera(), the set of  *)
(* camera handles that are open in the driver, and history counters.       *)
(*                                                                         *)
(* Library behaviour assumed: st.stop() raises a control exception that    *)
(* is not a subclass of Exception (the source comments it as "Arret de     *)
(* l'application"), so `except Exception` clauses do not absorb it while   *)
(* `finally` clauses run.  cv2 and Streamlit calls are environment steps   *)
(* whose outcome is drawn from a small set.                                *)
(***************************************************************************)
EXTENDS Integers, Sequences, FiniteSets

\* ---- bounds -----------------------------------------------------------
MaxIter == 3     \* loop iterations explored in one execution
MaxFaces == 1    \* faces the detector may report on one frame
MaxTime == 2     \* last clock reading explored, in whole clock units
MaxHandles == 3  \* VideoCapture objects created by the caller of SpecClose
MaxCloses == 3   \* safe_camera_release calls made by the caller of SpecClose

\* ---- program constants ------------------------------------------------
NumProbeIndices_four == 5 - 1
NumProbeIndices == 5       \* for i in range(5)
ValidationAttempts == 3    \* for _ in range(3)

DefaultNeighbors == 5      \* st.slider("Minimum de voisins", 1, 10, 5)

NoCap == 0                 \* the name `cap` is not bound / None

\* values the slider is moved between (within its range 1..10)
NeighborValues == {DefaultNeighbors, DefaultNeighbors + 1}

\* the global `fps = 0`; other values of fps are kept as the exact rational n/d
FpsZero == [n |-> 0, d |-> 1]

VARIABLES
    pc,           \* position of the thread of control
    exc,          \* exception in flight: "none", "Exception", "Stop", "Base"
    stopFrom,     \* which st.stop() raised: "none", "detector", "camera"
    caller,       \* call site of initialize_camera: "none", "startup", "recovery"
    loadResult,   \* outcome of load_cascade_classifier: "pending", "ok", "fetch_error", "empty"
    button,       \* the external run flag (what st.button reports)
    run,          \* main's local `run`
    cap,          \* main's local `cap`
    icap,         \* initialize_camera's local `cap`
    probe,        \* the temporary cv2.VideoCapture(i) of the cleanup loop
    i,            \* index of the cleanup loop
    attempts,     \* validation reads completed without a valid frame in this call
    icCause,      \* why initialize_camera failed: "none", "ctor_raised", "not_opened", "read_raised", "no_frames"
    openHandles,  \* handles currently open in the driver
    nextHandle,   \* number of VideoCapture objects created so far
    frame,        \* main's local `frame`: "none", "raw", "rgb", "annotated"
    faceCount,    \* main's local `face_count`
    detFault,     \* detect_faces_frame took its except branch on the current frame
    detLate,      \* the fault of the current frame arose after line 111 (the tick)
    iter,         \* loop iterations begun
    everOpened,   \* history: some handle was opened in this execution
    loopReads,    \* history: cap.read() calls made by the loop
    badReads,     \* history: loop reads that reported failure, None or size 0
    nClose,       \* history: safe_camera_release(cap) calls of the recovery branch
    nReopen,      \* history: initialize_camera() calls of the recovery branch
    processed,    \* history: detect_faces_frame calls
    published,    \* content of the two placeholders: empty, or the one record last published
    nPublished,   \* history: number of publishes
    reopenFailed, \* history: a reopen of the recovery branch failed
    staleEntry,   \* history: an iteration began while the external flag said stop
    now,             \* last reading of time.time(), in whole clock units
    prev_frame_time, \* module global `prev_frame_time`
    fps,             \* module global `fps`, the rational n/d
    current_fps,     \* detect_faces_frame's local `current_fps` (value returned by the last tick)
    ticks,           \* history: calls of calculate_fps
    minNeighbors,    \* main's local `minNeighbors` (scaleFactor and the colour are read the same way)
    uiMinNeighbors,  \* the value the sidebar slider holds now
    valReads,        \* validation reads made by the current initialize_camera call
    icValid          \* the last validation read of this call yielded a non-empty frame

vars == << pc, exc, stopFrom, caller, loadResult, button, run, cap, icap, probe, i,
           attempts, icCause, openHandles, nextHandle, frame, faceCount, detFault, detLate,
           iter, everOpened, loopReads, badReads, nClose, nReopen, processed,
           published, reopenFailed, staleEntry, now, prev_frame_time, fps,
           current_fps, ticks, minNeighbors, uiMinNeighbors,
           valReads, icValid, nPublished >>

clock == << now, prev_frame_time, fps, current_fps, ticks >>
params == << minNeighbors, uiMinNeighbors >>
val == << valReads, icValid >>

hist == << everOpened, loopReads, badReads, nClose, nReopen, processed, published,
           nPublished, reopenFailed, staleEntry >>

\* ---- pure helpers -----------------------------------------------------

\* safe_camera_release(cap): release only a bound, opened handle.
safe_camera_release_noop(c, open) == open
safe_camera_release(c, open) ==
    IF c /= NoCap /\ c \in open THEN open \ {c} ELSE open

\* `'cap' in locals()`
CapInLocals_never(c) == FALSE
CapInLocals(c) == c /= NoCap

\* `except Exception`: catches subclasses of Exception only.
ExceptException_all(e) == e /= "none"
ExceptException_nothing(e) == FALSE
ExceptException(e) == e = "Exception"

\* `if not ret or frame is None or frame.size == 0` of the main loop
ReadFailed_retonly(r) == r = "notret"
ReadFailed(r) == r \in {"notret", "none", "empty"}

\* `for _ in range(3)`: another validation read is due
MoreAttempts_offbyone(a) == a <= ValidationAttempts
MoreAttempts(a) == a < ValidationAttempts

\* load_cascade_classifier reaches st.stop()
LoadFails_fetchonly(r) == r = "fetch_error"
LoadFails(r) == r \in {"fetch_error", "empty"}

\* detect_faces_frame: result for a frame on which detection found `faces`
\* boxes and `fault` tells whether any step inside the try raised.
detect_faces_frame_keepcount(fr, faces, fault) ==
    IF fr \in {"none", "empty"} \/ fault
    THEN [frame |-> fr, count |-> faces, fault |-> TRUE]
    ELSE [frame |-> "annotated", count |-> faces, fault |-> FALSE]
detect_faces_frame(fr, faces, fault) ==
    IF fr \in {"none", "empty"} \/ fault
    THEN [frame |-> fr, count |-> 0, fault |-> TRUE]
    ELSE [frame |-> "annotated", count |-> faces, fault |-> FALSE]

\* line 111 inside the try of detect_faces_frame: calculate_fps() runs when
\* nothing raised before it; `late` says that the fault came after line 111.
TickReached_always(fault, late) == TRUE
TickReached(fault, late) == ~fault \/ late

\* int(fps): truncation toward zero
IntOf(q) ==
    IF q.d > 0 THEN q.n \div q.d ELSE -(q.n \div (-q.d))

\* calculate_fps() with prev_frame_time = prevT, fps = oldFps, time.time() = curr
calculate_fps_unguarded(prevT, oldFps, curr) ==
    IF curr - prevT = 0
    THEN [fps |-> oldFps, prev |-> prevT, ret |-> 0, raised |-> TRUE]
    ELSE [fps |-> [n |-> 1, d |-> curr - prevT], prev |-> curr,
          ret |-> IntOf([n |-> 1, d |-> curr - prevT]), raised |-> FALSE]
calculate_fps_keepprev(prevT, oldFps, curr) ==
    LET f == IF curr - prevT = 0 THEN FpsZero ELSE [n |-> 1, d |-> curr - prevT]
    IN  [fps |-> f, prev |-> prevT, ret |-> IntOf(f), raised |-> FALSE]
calculate_fps(prevT, oldFps, curr) ==
    LET f == IF curr - prevT = 0 THEN FpsZero ELSE [n |-> 1, d |-> curr - prevT]
    IN  [fps |-> f, prev |-> curr, ret |-> IntOf(f), raised |-> FALSE]

\* line 80: `ret and frame is not None and frame.size > 0`
ValidFrame_nosize(r) == r \in {"valid", "empty"}
ValidFrame(r) == r = "valid"

\* lines 148-167: the statement that follows a step of the loop body that
\* completed normally
BodyNext_skipdetect(p) ==
    CASE p = "read" -> "cvt"
      [] p = "cvt" -> "publish"
      [] p = "detect" -> "publish"
      [] OTHER -> "loop_top"
BodyNext(p) ==
    CASE p = "read" -> "cvt"
      [] p = "cvt" -> "detect"
      [] p = "detect" -> "publish"
      [] OTHER -> "loop_top"

LoopPcs == {"loop_top", "read", "recover_release", "recover_reopen", "cvt",
            "detect", "publish", "unwind_inner", "loop_handler"}
InitCamPcs == {"ic_probe", "ic_probe_release", "ic_open", "ic_validate",
               "ic_except"}

\* ---- initial state ----------------------------------------------------
InitLocals ==
    /\ exc = "none"
    /\ stopFrom = "none"
    /\ caller = "none"
    /\ loadResult = "pending"
    /\ button \in BOOLEAN
    /\ run = FALSE
    /\ cap = NoCap
    /\ icap = NoCap
    /\ probe = NoCap
    /\ i = 0
    /\ attempts = 0
    /\ icCause = "none"
    /\ openHandles = {}
    /\ nextHandle = 0
    /\ frame = "none"
    /\ faceCount = 0
    /\ detFault = FALSE
    /\ detLate = FALSE
    /\ iter = 0
    /\ everOpened = FALSE
    /\ loopReads = 0
    /\ badReads = 0
    /\ nClose = 0
    /\ nReopen = 0
    /\ processed = 0
    /\ published = << >>
    /\ nPublished = 0
    /\ reopenFailed = FALSE
    /\ staleEntry = FALSE
    /\ now = 1
    /\ prev_frame_time = 0
    /\ fps = FpsZero
    /\ current_fps = 0
    /\ ticks = 0
    /\ minNeighbors = DefaultNeighbors
    /\ uiMinNeighbors = DefaultNeighbors
    /\ valReads = 0
    /\ icValid = FALSE

Init ==
    /\ pc = "load"
    /\ InitLocals

\* ---- main(): startup --------------------------------------------------

\* line 125: face_cascade = load_cascade_classifier()
LoadCascade ==
    /\ pc = "load"
    /\ \E r \in {"ok", "fetch_error", "empty"} :
         /\ loadResult' = r
         /\ IF LoadFails(r)
            THEN /\ exc' = "Stop"
                 /\ stopFrom' = "detector"
                 /\ pc' = "unwind_outer"
            ELSE /\ exc' = exc
                 /\ stopFrom' = stopFrom
                 /\ pc' = "sidebar"
    /\ UNCHANGED << caller, button, run, cap, icap, probe, i, attempts, icCause,
                    openHandles, nextHandle, frame, faceCount, detFault, detLate, iter, hist,
                    clock, params, val >>

\* lines 127-135: read the sidebar, then call initialize_camera()
Sidebar ==
    /\ pc = "sidebar"
    /\ minNeighbors' = uiMinNeighbors
    /\ pc' = "ic_probe"
    /\ caller' = "startup"
    /\ i' = 0
    /\ icap' = NoCap
    /\ attempts' = 0
    /\ icCause' = "none"
    /\ valReads' = 0
    /\ icValid' = FALSE
    /\ UNCHANGED << exc, stopFrom, loadResult, button, run, cap, probe,
                    openHandles, nextHandle, frame, faceCount, detFault, detLate, iter, hist,
                    clock, uiMinNeighbors >>

\* ---- initialize_camera() ----------------------------------------------

\* line 64, argument: cv2.VideoCapture(i)
ProbeOpen ==
    /\ pc = "ic_probe"
    /\ i < NumProbeIndices
    /\ \E opened \in BOOLEAN :
         /\ nextHandle' = nextHandle + 1
         /\ probe' = nextHandle + 1
         /\ openHandles' = IF opened THEN openHandles \cup {nextHandle + 1} ELSE openHandles
         /\ everOpened' = (everOpened \/ opened)
    /\ pc' = "ic_probe_release"
    /\ UNCHANGED << exc, stopFrom, caller, loadResult, button, run, cap, icap, i,
                    attempts, icCause, frame, faceCount, detFault, detLate, iter,
                    loopReads, badReads, nClose, nReopen, processed, published, nPublished,
                    reopenFailed, staleEntry,
                    clock, params, val >>

\* line 64, call: safe_camera_release(<probe>); line 65 when the loop ends
ProbeRelease ==
    /\ pc = "ic_probe_release"
    /\ openHandles' = safe_camera_release(probe, openHandles)
    /\ probe' = NoCap
    /\ i' = i + 1
    /\ pc' = IF i + 1 < NumProbeIndices THEN "ic_probe" ELSE "ic_open"
    /\ UNCHANGED << exc, stopFrom, caller, loadResult, button, run, cap, icap,
                    attempts, icCause, nextHandle, frame, faceCount, detFault, detLate,
                    iter, hist,
                    clock, params, val >>

\* lines 69-75: cap = cv2.VideoCapture(0, ...); isOpened check; set size
OpenWorking ==
    /\ pc = "ic_open"
    /\ \E r \in {"opened", "not_opened", "raises"} :
         /\ nextHandle' = nextHandle + 1
         /\ icap' = IF r = "raises" THEN NoCap ELSE nextHandle + 1
         /\ openHandles' = IF r = "opened" THEN openHandles \cup {nextHandle + 1} ELSE openHandles
         /\ everOpened' = (everOpened \/ r = "opened")
         /\ icCause' = CASE r = "opened" -> "none"
                         [] r = "not_opened" -> "not_opened"
                         [] OTHER -> "ctor_raised"
         /\ pc' = IF r = "opened" THEN "ic_validate" ELSE "ic_except"
    /\ attempts' = 0
    /\ UNCHANGED << exc, stopFrom, caller, loadResult, button, run, cap, probe, i,
                    frame, faceCount, detFault, detLate, iter,
                    loopReads, badReads, nClose, nReopen, processed, published, nPublished,
                    reopenFailed, staleEntry,
                    clock, params, val >>

\* lines 78-83: one validation read; a valid frame returns the handle
ValidateRead ==
    /\ pc = "ic_validate"
    /\ MoreAttempts(attempts)
    /\ valReads' = valReads + 1
    /\ \E r \in {"valid", "notret", "none", "empty", "raises"} :
         /\ icValid' = (r = "valid")
         /\ CASE r = "raises" ->
                /\ icCause' = "read_raised"
                /\ pc' = "ic_except"
                /\ UNCHANGED << cap, caller, attempts >>
           [] ValidFrame(r) ->
                /\ cap' = icap
                /\ pc' = IF caller = "startup" THEN "button" ELSE "loop_top"
                /\ caller' = "none"
                /\ UNCHANGED << attempts, icCause >>
           [] OTHER ->
                /\ attempts' = attempts + 1
                /\ UNCHANGED << cap, pc, caller, icCause >>
    /\ UNCHANGED << exc, stopFrom, loadResult, button, run, icap, probe, i,
                    openHandles, nextHandle, frame, faceCount, detFault, detLate, iter, hist,
                    clock, params >>

\* line 85: the attempt budget is used up
ValidateExhausted ==
    /\ pc = "ic_validate"
    /\ ~MoreAttempts(attempts)
    /\ icCause' = "no_frames"
    /\ pc' = "ic_except"
    /\ UNCHANGED << exc, stopFrom, caller, loadResult, button, run, cap, icap, probe,
                    i, attempts, openHandles, nextHandle, frame, faceCount,
                    detFault, detLate, iter, hist,
                    clock, params, val >>

\* lines 87-91: release the handle if bound, st.error, st.stop()
InitCameraFails ==
    /\ pc = "ic_except"
    /\ openHandles' = IF CapInLocals(icap)
                      THEN safe_camera_release(icap, openHandles)
                      ELSE openHandles
    /\ exc' = "Stop"
    /\ stopFrom' = "camera"
    /\ reopenFailed' = (caller = "recovery")
    /\ pc' = IF caller = "recovery" THEN "unwind_inner" ELSE "unwind_outer"
    /\ caller' = "none"
    /\ UNCHANGED << loadResult, button, run, cap, icap, probe, i, attempts, icCause,
                    nextHandle, frame, faceCount, detFault, detLate, iter,
                    everOpened, loopReads, badReads, nClose, nReopen, processed,
                    published, nPublished, staleEntry,
                    clock, params, val >>

\* ---- main(): the loop -------------------------------------------------

\* lines 137-144: placeholders, run = st.button(...)
Button ==
    /\ pc = "button"
    /\ \E r \in {"ok", "Exception"} :
         IF r = "ok"
         THEN /\ run' = button
              /\ pc' = "loop_top"
              /\ exc' = exc
         ELSE /\ run' = run
              /\ pc' = "unwind_outer"
              /\ exc' = "Exception"
    /\ UNCHANGED << stopFrom, caller, loadResult, button, cap, icap, probe, i,
                    attempts, icCause, openHandles, nextHandle, frame, faceCount,
                    detFault, detLate, iter, hist,
                    clock, params, val >>

\* the external stop signal, given while the loop is running
ExternalStop ==
    /\ pc \in LoopPcs \cup InitCamPcs
    /\ run
    /\ button
    /\ button' = FALSE
    /\ UNCHANGED << pc, exc, stopFrom, caller, loadResult, run, cap, icap, probe, i,
                    attempts, icCause, openHandles, nextHandle, frame, faceCount,
                    detFault, detLate, iter, hist,
                    clock, params, val >>

\* the sidebar slider is moved between two frames (before the loop test)
ExternalParamChange ==
    /\ pc = "loop_top"
    /\ run
    /\ \E v \in NeighborValues \ {uiMinNeighbors} : uiMinNeighbors' = v
    /\ UNCHANGED << pc, exc, stopFrom, caller, loadResult, button, run, cap, icap,
                    probe, i, attempts, icCause, openHandles, nextHandle, frame,
                    faceCount, detFault, detLate, iter, hist, clock, minNeighbors,
                    val >>

\* line 146: while run
LoopTop ==
    /\ pc = "loop_top"
    /\ IF run
       THEN /\ iter < MaxIter
            /\ iter' = iter + 1
            /\ pc' = "read"
            /\ staleEntry' = (staleEntry \/ ~button)
       ELSE /\ iter' = iter
            /\ pc' = "finally"
            /\ staleEntry' = staleEntry
    /\ frame' = "none"
    /\ detFault' = FALSE
    /\ detLate' = FALSE
    /\ UNCHANGED << exc, stopFrom, caller, loadResult, button, run, cap, icap, probe,
                    i, attempts, icCause, openHandles, nextHandle, faceCount,
                    everOpened, loopReads, badReads, nClose, nReopen, processed,
                    published, nPublished, reopenFailed,
                    clock, params, val >>

\* lines 148-149: ret, frame = cap.read() and the validity test
LoopRead ==
    /\ pc = "read"
    /\ loopReads' = loopReads + 1
    /\ \E r \in {"valid", "notret", "none", "empty", "Exception", "Base"} :
         /\ badReads' = IF r \in {"notret", "none", "empty"} THEN badReads + 1 ELSE badReads
         /\ CASE r \in {"Exception", "Base"} ->
                   /\ exc' = r
                   /\ pc' = "unwind_inner"
                   /\ frame' = frame
              [] ReadFailed(r) ->
                   /\ exc' = exc
                   /\ pc' = "recover_release"
                   /\ frame' = IF r = "notret" THEN "none" ELSE r
              [] OTHER ->
                   /\ exc' = exc
                   /\ pc' = BodyNext("read")
                   /\ frame' = IF r = "valid" THEN "raw" ELSE r
    /\ UNCHANGED << stopFrom, caller, loadResult, button, run, cap, icap, probe, i,
                    attempts, icCause, openHandles, nextHandle, faceCount, detFault, detLate,
                    iter, everOpened, nClose, nReopen, processed, published, nPublished,
                    reopenFailed, staleEntry,
                    clock, params, val >>

\* lines 150-152: st.warning, safe_camera_release(cap), sleep
RecoverRelease ==
    /\ pc = "recover_release"
    /\ openHandles' = safe_camera_release(cap, openHandles)
    /\ nClose' = nClose + 1
    /\ pc' = "recover_reopen"
    /\ UNCHANGED << exc, stopFrom, caller, loadResult, button, run, cap, icap, probe,
                    i, attempts, icCause, nextHandle, frame, faceCount, detFault, detLate,
                    iter, everOpened, loopReads, badReads, nReopen, processed,
                    published, nPublished, reopenFailed, staleEntry,
                    clock, params, val >>

\* line 153: cap = initialize_camera()   (the call; the return binds cap)
RecoverReopen ==
    /\ pc = "recover_reopen"
    /\ nReopen' = nReopen + 1
    /\ pc' = "ic_probe"
    /\ caller' = "recovery"
    /\ i' = 0
    /\ icap' = NoCap
    /\ attempts' = 0
    /\ icCause' = "none"
    /\ valReads' = 0
    /\ icValid' = FALSE
    /\ UNCHANGED << exc, stopFrom, loadResult, button, run, cap, probe,
                    openHandles, nextHandle, frame, faceCount, detFault, detLate, iter,
                    everOpened, loopReads, badReads, nClose, processed, published, nPublished,
                    reopenFailed, staleEntry,
                    clock, params >>

\* line 156: frame = cv2.cvtColor(frame, cv2.COLOR_BGR2RGB)
ConvertColor ==
    /\ pc = "cvt"
    /\ \E r \in {"ok", "Exception"} :
         IF r = "ok" /\ frame = "raw"
         THEN /\ frame' = "rgb"
              /\ pc' = BodyNext("cvt")
              /\ exc' = exc
         ELSE /\ frame' = frame
              /\ pc' = "unwind_inner"
              /\ exc' = "Exception"
    /\ UNCHANGED << stopFrom, caller, loadResult, button, run, cap, icap, probe, i,
                    attempts, icCause, openHandles, nextHandle, faceCount, detFault, detLate,
                    iter, hist,
                    clock, params, val >>

\* line 157: processed_frame, face_count = detect_faces_frame(...)
Detect ==
    /\ pc = "detect"
    /\ processed' = processed + 1
    /\ \E faces \in 0..MaxFaces, fault \in BOOLEAN, late \in BOOLEAN, dt \in 0..(MaxTime - now) :
         LET ticked == TickReached(fault, late)
             t == calculate_fps(prev_frame_time, fps, now + dt)
             res == detect_faces_frame(frame, faces, fault \/ (ticked /\ t.raised))
         IN
           /\ frame' = res.frame
           /\ faceCount' = res.count
           /\ detFault' = res.fault
           /\ detLate' = (fault /\ late)
           /\ IF ticked
              THEN /\ now' = now + dt
                   /\ prev_frame_time' = t.prev
                   /\ fps' = t.fps
                   /\ current_fps' = t.ret
                   /\ ticks' = ticks + 1
              ELSE UNCHANGED clock
    /\ pc' = BodyNext("detect")
    /\ UNCHANGED << exc, stopFrom, caller, loadResult, button, run, cap, icap, probe,
                    i, attempts, icCause, openHandles, nextHandle, iter,
                    everOpened, loopReads, badReads, nClose, nReopen, published, nPublished,
                    reopenFailed, staleEntry,
                    minNeighbors, uiMinNeighbors, val >>

\* lines 159-167: publish the frame and the statistics, then yield
Publish ==
    /\ pc = "publish"
    /\ \E r \in {"ok", "Exception", "Base"} :
         IF r = "ok"
         THEN /\ published' = << [iter |-> iter, frame |-> frame, count |-> faceCount,
                                  fault |-> detFault, fps |-> fps,
                                  neighbors |-> minNeighbors] >>
              /\ nPublished' = nPublished + 1
              /\ pc' = BodyNext("publish")
              /\ exc' = exc
         ELSE /\ published' = published
              /\ nPublished' = nPublished
              /\ pc' = "unwind_inner"
              /\ exc' = r
    /\ UNCHANGED << stopFrom, caller, loadResult, button, run, cap, icap, probe, i,
                    attempts, icCause, openHandles, nextHandle, frame, faceCount,
                    detFault, detLate, iter, everOpened, loopReads, badReads, nClose, nReopen,
                    processed, reopenFailed, staleEntry,
                    clock, params, val >>

\* line 169: does the loop's `except Exception` take the exception?
UnwindInner ==
    /\ pc = "unwind_inner"
    /\ pc' = IF ExceptException(exc) THEN "loop_handler" ELSE "unwind_outer"
    /\ UNCHANGED << exc, stopFrom, caller, loadResult, button, run, cap, icap, probe,
                    i, attempts, icCause, openHandles, nextHandle, frame, faceCount,
                    detFault, detLate, iter, hist,
                    clock, params, val >>

\* lines 170-171: st.error, sleep, next iteration
LoopHandler ==
    /\ pc = "loop_handler"
    /\ exc' = "none"
    /\ pc' = "loop_top"
    /\ UNCHANGED << stopFrom, caller, loadResult, button, run, cap, icap, probe, i,
                    attempts, icCause, openHandles, nextHandle, frame, faceCount,
                    detFault, detLate, iter, hist,
                    clock, params, val >>

\* lines 173-174: main's `except Exception`, st.error when it matches
UnwindOuter ==
    /\ pc = "unwind_outer"
    /\ exc' = IF ExceptException(exc) THEN "none" ELSE exc
    /\ pc' = "finally"
    /\ UNCHANGED << stopFrom, caller, loadResult, button, run, cap, icap, probe, i,
                    attempts, icCause, openHandles, nextHandle, frame, faceCount,
                    detFault, detLate, iter, hist,
                    clock, params, val >>

\* lines 175-178: finally: release cap if bound
Finally ==
    /\ pc = "finally"
    /\ openHandles' = IF CapInLocals(cap)
                      THEN safe_camera_release(cap, openHandles)
                      ELSE openHandles
    /\ pc' = "done"
    /\ UNCHANGED << exc, stopFrom, caller, loadResult, button, run, cap, icap, probe,
                    i, attempts, icCause, nextHandle, frame, faceCount, detFault, detLate,
                    iter, hist,
                    clock, params, val >>

Next ==
    \/ LoadCascade
    \/ Sidebar
    \/ ProbeOpen
    \/ ProbeRelease
    \/ OpenWorking
    \/ ValidateRead
    \/ ValidateExhausted
    \/ InitCameraFails
    \/ Button
    \/ ExternalStop
    \/ ExternalParamChange
    \/ LoopTop
    \/ LoopRead
    \/ RecoverRelease
    \/ RecoverReopen
    \/ ConvertColor
    \/ Detect
    \/ Publish
    \/ UnwindInner
    \/ LoopHandler
    \/ UnwindOuter
    \/ Finally

Spec == Init /\ [][Next]_vars

\* ---- safe_camera_release() under an arbitrary caller --------------------
\* A caller that creates VideoCapture objects and calls safe_camera_release
\* on any of them, or on None, in any order and any number of times.

InitClose ==
    /\ pc = "caller"
    /\ InitLocals

\* cv2.VideoCapture(k): a new object, opened or not
CallerCapture ==
    /\ pc = "caller"
    /\ nextHandle < MaxHandles
    /\ \E opened \in BOOLEAN :
         /\ nextHandle' = nextHandle + 1
         /\ openHandles' = IF opened THEN openHandles \cup {nextHandle + 1} ELSE openHandles
         /\ everOpened' = (everOpened \/ opened)
    /\ UNCHANGED << pc, exc, stopFrom, caller, loadResult, button, run, cap, icap,
                    probe, i, attempts, icCause, frame, faceCount, detFault, detLate, iter,
                    loopReads, badReads, nClose, nReopen, processed, published,
                    nPublished, reopenFailed, staleEntry, clock, params, val >>

\* lines 56-59: safe_camera_release(c) for c None or any object created so far
CallerRelease ==
    /\ pc = "caller"
    /\ nClose < MaxCloses
    /\ \E c \in 0..nextHandle :
         /\ probe' = c
         /\ openHandles' = safe_camera_release(c, openHandles)
    /\ nClose' = nClose + 1
    /\ UNCHANGED << pc, exc, stopFrom, caller, loadResult, button, run, cap, icap,
                    i, attempts, icCause, nextHandle, frame, faceCount, detFault, detLate,
                    iter, everOpened, loopReads, badReads, nReopen, processed,
                    published, nPublished, reopenFailed, staleEntry, clock,
                    params, val >>

NextClose ==
    \/ CallerCapture
    \/ CallerRelease

SpecClose == InitClose /\ [][NextClose]_vars

\* ---- properties -------------------------------------------------------

C2_AtMostOneHandle ==
    /\ [](Cardinality(openHandles) <= 1)
    /\ [][(openHandles' \ openHandles /= {}) =>
            (openHandles = {} /\ Cardinality(openHandles') = 1)]_vars
C2_Witness ==
    /\ nReopen >= 1
    /\ pc = "read"
    /\ cap \in openHandles
    /\ Cardinality(openHandles) = 1
    /\ cap > NumProbeIndices + 1

\* C3 (as stated): when no device is obtainable, initialize_camera fails
\* after exactly 3 validation reads and leaves no open handle.
C3_ExactlyThreeReads ==
    (stopFrom = "camera" /\ icCause \in {"not_opened", "no_frames"}) =>
        (attempts = 3 /\ openHandles = {})

\* C3 (amended): a failing initialize_camera has made no validation read
\* when the handle did not open, exactly 3 when the handle opened and no read
\* gave a valid frame, fewer than 3 when a read raised; in every case no
\* handle is open afterwards.
C3_FailsWithinBudget ==
    stopFrom = "camera" =>
        /\ openHandles = {}
        /\ icCause \in {"ctor_raised", "not_opened", "read_raised", "no_frames"}
        /\ (icCause = "no_frames" => attempts = 3)
        /\ (icCause \in {"ctor_raised", "not_opened"} => attempts = 0)
        /\ (icCause = "read_raised" => attempts \in 0..2)
C3_Witness ==
    /\ stopFrom = "camera"
    /\ icCause = "no_frames"
    /\ attempts = 3
    /\ everOpened
    /\ openHandles = {}

\* C4: every loop read that reports failure, None or size 0 triggers exactly
\* one recovery: one safe_camera_release(cap) followed by one
\* initialize_camera(); so outside the recovery branch the three counts are
\* equal, and the loop reads again only with an open handle.
C4_OneRecoveryPerFailedRead ==
    /\ nReopen <= nClose
    /\ nClose <= badReads
    /\ badReads <= nReopen + 1
    /\ (pc = "recover_release" => (badReads = nClose + 1 /\ nClose = nReopen))
    /\ (pc = "recover_reopen" => (badReads = nClose /\ nClose = nReopen + 1))
    /\ (pc \notin {"recover_release", "recover_reopen"} =>
            (badReads = nClose /\ nClose = nReopen))
    /\ (pc = "read" => cap \in openHandles)
C4_Witness ==
    /\ pc = "read"
    /\ iter = 3
    /\ loopReads = 2
    /\ badReads = 2
    /\ nClose = 2
    /\ nReopen = 2
    /\ cap \in openHandles

C6_StopEndsLoop == ~staleEntry

\* C7: in an execution where the run flag is not set, no camera handle is
\* ever opened.
C7_NoStartNoCamera == (~button /\ ~run) => (~everOpened /\ openHandles = {})

\* C8: an Exception raised while reading, converting, detecting or
\* publishing one frame is absorbed: control goes to the loop's handler and
\* then to the top of the loop, and the fault neither releases nor replaces
\* the handle held by the loop.
C8_TransientFaultAbsorbed ==
    [][/\ (exc' = "Exception" /\ pc' = "unwind_inner") =>
              (cap' = cap /\ openHandles' = openHandles)
       /\ (exc = "Exception" /\ pc = "unwind_inner") =>
              (pc' \in {"unwind_inner", "loop_handler"}
                 /\ cap' = cap /\ openHandles' = openHandles)
       /\ pc = "loop_handler" =>
              (pc' \in {"loop_handler", "loop_top"}
                 /\ cap' = cap /\ openHandles' = openHandles /\ run' = run)
       /\ (pc = "detect" /\ detFault') =>
              (pc' = "publish" /\ cap' = cap /\ openHandles' = openHandles)]_vars
C8_Witness ==
    /\ pc = "read"
    /\ iter = 2
    /\ loopReads = 1
    /\ badReads = 0
    /\ published = << >>
    /\ cap \in openHandles
    /\ nReopen = 0

C10_NoDetectorNoPipeline ==
    /\ (loadResult \in {"fetch_error", "empty"} =>
            /\ ~everOpened
            /\ openHandles = {}
            /\ nextHandle = 0
            /\ loopReads = 0
            /\ processed = 0
            /\ published = << >>
            /\ pc \in {"unwind_outer", "finally", "done"})
    /\ (processed > 0 => loadResult = "ok")
C10_Witness ==
    /\ loadResult = "empty"
    /\ pc = "done"
    /\ exc = "Stop"
    /\ stopFrom = "detector"

\* C11: safe_camera_release raises nothing and changes nothing when its
\* argument is None, was never opened or is already released; it releases an
\* open handle; and a second call on the same argument changes nothing.
C11_CloseIdempotentTotal ==
    [][(pc = "caller" /\ nClose' = nClose + 1) =>
         /\ exc' = "none"
         /\ pc' = "caller"
         /\ ((probe' = NoCap \/ probe' \notin openHandles) => openHandles' = openHandles)
         /\ (probe' \in openHandles => openHandles' = openHandles \ {probe'})
         /\ probe' \notin openHandles'
         /\ ((nClose > 0 /\ probe' = probe) => openHandles' = openHandles)]_vars
C11_Witness ==
    /\ pc = "caller"
    /\ nextHandle = 1
    /\ everOpened
    /\ nClose = 3
    /\ probe = 1
    /\ openHandles = {}

\* C12: every call of calculate_fps stores the current clock reading in
\* prev_frame_time, and a call with zero elapsed time sets fps to 0 and
\* returns 0 instead of raising a division fault.
C12_TickZeroElapsed ==
    [][ticks' = ticks + 1 =>
         /\ prev_frame_time' = now'
         /\ (now' = prev_frame_time =>
                (fps' = FpsZero /\ current_fps' = 0 /\ exc' = "none"))
         /\ (now' /= prev_frame_time =>
                (fps' = [n |-> 1, d |-> now' - prev_frame_time]))]_vars
C12_Witness ==
    /\ ticks >= 2
    /\ pc = "publish"
    /\ ~detFault
    /\ fps = FpsZero
    /\ current_fps = 0
    /\ prev_frame_time = now

\* C13: each frame is processed, and its statistics published, with the
\* parameter value the sidebar held when the iteration began: a change made
\* between two frames is used for the next frame.
C13_CurrentParamsUsed ==
    pc \in {"read", "cvt", "detect", "publish"} => minNeighbors = uiMinNeighbors

\* C14: initialize_camera makes at most 3 validation reads per call; a
\* handle it has returned (cap = icap) came from a call whose last read
\* yielded a non-empty frame, every earlier read of that call having failed,
\* and the handle is open until the loop releases it.
C14_ReturnsOnlyValidatedHandle ==
    /\ valReads <= 3
    /\ (pc = "ic_validate" => valReads = attempts)
    /\ ((cap /= NoCap /\ cap = icap) =>
            /\ icValid
            /\ valReads = attempts + 1
            /\ valReads \in 1..3
            /\ (pc \notin {"recover_reopen", "done"} => cap \in openHandles))
    /\ (cap /= NoCap => pc \notin {"load", "sidebar"})
C14_Witness ==
    /\ pc = "loop_top"
    /\ nReopen = 1
    /\ cap = icap
    /\ cap \in openHandles
    /\ icValid
    /\ valReads = 3
    /\ attempts = 2

\* C15: a frame cycle runs read, convert, process, publish in this order
\* within one iteration: the frame that is processed or published was read
\* by the one read of the current iteration, a published frame went through
\* detect_faces_frame in that iteration, each publish belongs to a later
\* iteration than the one before it, and a read starts only from the top of
\* the loop with no frame in hand.
C15_ReadProcessPublishInOrder ==
    /\ [](/\ (pc = "read" => (loopReads = iter - 1 /\ frame = "none"))
          /\ (pc \in {"cvt", "detect", "publish"} => loopReads = iter)
          /\ (pc = "cvt" => frame = "raw")
          /\ (pc = "detect" => frame = "rgb")
          /\ (pc = "publish" => \/ (frame = "annotated" /\ ~detFault)
                                \/ (frame = "rgb" /\ detFault))
          /\ nPublished <= processed
          /\ processed <= loopReads
          /\ loopReads <= iter)
    /\ [][/\ (nPublished' /= nPublished =>
                 /\ pc = "publish"
                 /\ pc' = "loop_top"
                 /\ nPublished' = nPublished + 1
                 /\ published'[1].iter = iter
                 /\ published'[1].frame = frame
                 /\ (Len(published) = 1 => published[1].iter < iter))
          /\ (processed' /= processed => (pc = "detect" /\ pc' = "publish"))
          /\ (loopReads' /= loopReads => (pc = "read" /\ frame = "none"))]_vars
C15_Witness ==
    /\ pc = "loop_top"
    /\ nPublished = 2
    /\ processed = 2
    /\ loopReads = 2
    /\ iter = 2
    /\ published[1].iter = 2
    /\ published[1].frame = "annotated"

\* C16: in every call of initialize_camera the cleanup over the indices
\* 0..4 is complete before the index-0 device is opened for use: a probe
\* handle that opened is released before the next index is probed, and no
\* handle is open when the working handle is acquired.
C16_CleanupBeforeOpen ==
    /\ (pc = "ic_probe" => (i \in 0..4 /\ probe = NoCap /\ openHandles = {}))
    /\ (pc = "ic_probe_release" =>
            (i \in 0..4 /\ probe /= NoCap /\ openHandles \subseteq {probe}))
    /\ (pc = "ic_open" =>
            /\ i = 5
            /\ probe = NoCap
            /\ openHandles = {}
            /\ nextHandle = 6 * nReopen + 5)
    /\ (pc \in {"ic_validate", "ic_except"} => (i = 5 /\ openHandles \subseteq {icap}))
C16_Witness ==
    /\ pc = "ic_open"
    /\ caller = "startup"
    /\ i = 5
    /\ everOpened
    /\ openHandles = {}
    /\ nextHandle = 5

\* C17: a frame whose read reported failure, None or size 0 is never
\* converted, processed or published; such a read leads to the recovery
\* branch, and until the loop test is reached again nothing but the release
\* and the reopen happens: no processing, no publish, no tick.
C17_BadFrameNeverProcessed ==
    /\ [](/\ (pc \in {"cvt", "detect", "publish"} => frame \notin {"none", "empty"})
          /\ (pc \in {"recover_release", "recover_reopen"} =>
                  (frame \in {"none", "empty"} /\ ~detFault))
          /\ processed + badReads <= loopReads
          /\ nPublished + badReads <= loopReads)
    /\ [][/\ (badReads' /= badReads =>
                 (pc = "read" /\ pc' = "recover_release" /\ badReads' = badReads + 1))
          /\ ((pc \in {"recover_release", "recover_reopen"}
                 \/ (pc \in InitCamPcs /\ caller = "recovery")) =>
                 /\ processed' = processed
                 /\ published' = published
                 /\ nPublished' = nPublished
                 /\ ticks' = ticks
                 /\ fps' = fps
                 /\ loopReads' = loopReads
                 /\ pc' \in {"recover_release", "recover_reopen", "loop_top",
                              "unwind_inner"} \cup InitCamPcs)]_vars
C17_Witness ==
    /\ pc = "loop_top"
    /\ frame = "empty"
    /\ loopReads = 1
    /\ badReads = 1
    /\ nReopen = 1
    /\ processed = 0
    /\ nPublished = 0
    /\ cap \in openHandles

C19_TickOnlyOnSuccess ==
    [][(ticks' /= ticks) <=> (pc = "detect" /\ pc' = "publish" /\ ~detFault')]_vars

\* C19 (amended): the FPS meter is ticked exactly once for every frame whose
\* processing reached line 111, that is every frame processed without fault
\* and every frame whose fault arose after the tick; it is not ticked for a
\* frame whose fault arose before line 111, for a failed read or during
\* recovery.  The meter changes only by a tick, the statistics published
\* carry the meter's fps value of that moment, and a faulted frame is
\* published with face count 0.
C19_TickOncePerFrameReachingTick ==
    /\ [](ticks <= processed)
    /\ [][/\ (ticks' /= ticks =>
                 /\ pc = "detect"
                 /\ pc' = "publish"
                 /\ ticks' = ticks + 1
                 /\ (~detFault' \/ detLate'))
          /\ ((pc = "detect" /\ pc' = "publish" /\ (~detFault' \/ detLate')) =>
                 ticks' = ticks + 1)
          /\ (ticks' = ticks =>
                 (fps' = fps /\ prev_frame_time' = prev_frame_time))
          /\ ((pc = "publish" /\ nPublished' /= nPublished) =>
                 /\ published'[1].fps = fps
                 /\ published'[1].fault = detFault
                 /\ (detFault => published'[1].count = 0))]_vars
C19_Witness ==
    /\ pc = "loop_top"
    /\ detFault
    /\ detLate
    /\ processed = 2
    /\ ticks = 2
    /\ nPublished = 2
    /\ published[1].fault
    /\ published[1].count = 0
    /\ published[1].fps = FpsZero
    /\ fps = FpsZero

====
